---- MODULE Spec2Model ----
(***************************************************************************)
(* Model of beelzebub.base: the endpoint open/close protocol               *)
(* (BaseContextManager, BaseReader, BaseWriter), the transfer step         *)
(* (BaseProcessor.process) and the workflow coordinator (BaseWorkflow).    *)
(*                                                                         *)
(* Python values are represented as follows.                               *)
(*   str used as a kind or a payload : a sequence of one-character strings *)
(*   str used as a mode or encoding  : a TLA+ string ("" is the empty str) *)
(*   an identifier or a datum        : a tagged record, see None/Str/...   *)
(*   dict                            : a function; a key is present iff it *)
(*                                     is in the DOMAIN                    *)
(*   keyword arguments               : a dict; a key left out of the call  *)
(*                                     takes the parameter's default       *)
(*   self.fp                         : <<>> for None, <<h>> for a handle h *)
(***************************************************************************)
EXTENDS Integers, Sequences, FiniteSets, TLC

VARIABLES
    confs,      \* the dict objects used as configurations, by identity
    ep,         \* the two endpoint instances: their attributes
    alive,      \* per endpoint: resources it opened that are not yet closed
    wf,         \* the workflow: its conf (section name -> dict object)
    template,   \* BaseWriter.DEFAULTS['template'] ("" stands for None)
    pc,         \* position inside BaseProcessor.process ("idle" outside it)
    exc,        \* the exception in flight inside process ("" for none)
    proc,       \* the processor's attributes (input)
    log,        \* the calls made by the current top-level call, in order
    passed,     \* per endpoint: latest mode/encoding an open call was given
    sent,       \* per endpoint: what its latest open handed to the backend
    calls       \* number of top-level calls made so far

vars == <<confs, ep, alive, wf, template, pc, exc, proc, log, passed, sent, calls>>

(***************************************************************************)
(* Bounds                                                                  *)
(***************************************************************************)
MaxCalls == 3
MaxAlive == 2

(***************************************************************************)
(* Python values                                                           *)
(***************************************************************************)
None == [t |-> "NoneType", s |-> <<>>]
Str(s) == [t |-> "str", s |-> s]
Bytes(s) == [t |-> "bytes", s |-> s]
Int42 == [t |-> "int", s |-> <<"4", "2">>]

\* bool(x) for the values above
Truthy(x) == x.t # "NoneType" /\ (x.t \in {"str", "bytes"} => x.s # <<>>)

EmptyDict == <<>>
Has(d, k) == k \in DOMAIN d
Get(d, k, default) == IF k \in DOMAIN d THEN d[k] ELSE default
Put(d, k, v) == [x \in (DOMAIN d) \cup {k} |-> IF x = k THEN v ELSE d[x]]

\* d.update(**u)
Update(d, u) == [x \in (DOMAIN d) \cup (DOMAIN u) |-> IF x \in DOMAIN u THEN u[x] ELSE d[x]]

UpperCase == <<"A", "B", "C", "D", "E", "F", "G", "H", "I", "J", "K", "L", "M",
               "N", "O", "P", "Q", "R", "S", "T", "U", "V", "W", "X", "Y", "Z">>
LowerCase == <<"a", "b", "c", "d", "e", "f", "g", "h", "i", "j", "k", "l", "m",
               "n", "o", "p", "q", "r", "s", "t", "u", "v", "w", "x", "y", "z">>

LowerChar(c) ==
    IF \E i \in DOMAIN UpperCase : UpperCase[i] = c
    THEN LowerCase[CHOOSE i \in DOMAIN UpperCase : UpperCase[i] = c]
    ELSE c

\* str.lower()
Lower(s) == [i \in DOMAIN s |-> LowerChar(s[i])]

\* the kind literals the code compares against
KindFile == <<"f", "i", "l", "e">>
KindUrl == <<"u", "r", "l">>
KindStr == <<"s", "t", "r">>

(***************************************************************************)
(* BaseContextManager._construct_open_opts and the pieces of open          *)
(***************************************************************************)

\* a faulty variant: the mode is an option for every supported kind
ConstructOpenOptsWithMode(iotype, conf) ==
    IF Lower(iotype) \in {KindFile, KindUrl, KindStr}
    THEN [k \in (DOMAIN conf) \cap {"mode", "encoding"} |-> conf[k]]
    ELSE EmptyDict

\* the options handed to the backend's open call
ConstructOpenOpts(iotype, conf) ==
    LET withMode == IF Has(conf, "mode")
                    THEN Put(EmptyDict, "mode", conf["mode"]) ELSE EmptyDict
        withEnc(o) == IF Has(conf, "encoding")
                      THEN Put(o, "encoding", conf["encoding"]) ELSE o
    IN  IF Lower(iotype) = KindFile \/ Lower(iotype) = KindUrl
        THEN withEnc(withMode)
        ELSE IF Lower(iotype) = KindStr
        THEN withEnc(EmptyDict)
        ELSE EmptyDict

\* `if mode:` / `if encoding:` : the keyword was given and is truthy
StrArgGiven(kw, k) == Has(kw, k) /\ kw[k] # ""

\* `if iostream:`
IostreamGiven(kw) == Has(kw, "iostream") /\ Truthy(kw["iostream"])

\* `if iotype:`
IotypeGiven(kw) == Has(kw, "iotype") /\ kw["iotype"] # <<>>

\* a faulty variant: the identifier passed to open is not stored
OpenIostreamKept(self, kw) == self.iostream

\* self.iostream after the first statement of open
OpenIostream(self, kw) ==
    IF IostreamGiven(kw) THEN kw["iostream"] ELSE self.iostream

\* self.iotype after the second statement of open
OpenIotype(self, kw) ==
    IF IotypeGiven(kw) THEN kw["iotype"] ELSE self.iotype

\* **fs_opts: the keyword arguments of open other than the four named ones,
\* held by the model under the key "fs_opts" of kw
FsOpts(kw) == Get(kw, "fs_opts", EmptyDict)

\* `if fs_opts:`
FsOptsGiven(kw) == DOMAIN FsOpts(kw) # {}

\* self.conf after the mode, encoding and fs_opts statements of open
OpenConf(conf, kw) ==
    LET c1 == IF StrArgGiven(kw, "mode") THEN Put(conf, "mode", kw["mode"]) ELSE conf
        c2 == IF StrArgGiven(kw, "encoding")
              THEN Put(c1, "encoding", kw["encoding"]) ELSE c1
    IN  IF FsOptsGiven(kw)
        THEN Put(c2, "fs_opts", Update(Get(c2, "fs_opts", EmptyDict), FsOpts(kw)))
        ELSE c2

\* a faulty variant: the kind is compared as given, not lower-cased
DispatchCaseSensitive(iotype) ==
    IF iotype = KindFile THEN "file"
    ELSE IF iotype = KindUrl THEN "url"
    ELSE IF iotype = KindStr THEN "str"
    ELSE "unsupported"

\* which branch of the if/elif chain of open is taken
Dispatch(iotype) ==
    IF Lower(iotype) = KindFile THEN "file"
    ELSE IF Lower(iotype) = KindUrl THEN "url"
    ELSE IF Lower(iotype) = KindStr THEN "str"
    ELSE "unsupported"

\* a faulty variant: the writer's default copied from the reader's
DefaultModeCopied(cls) ==
    IF cls \in {"BaseReader", "BaseWriter"} THEN "r" ELSE ""

\* the built-in default mode of each class (None for the base class)
DefaultMode(cls) ==
    IF cls = "BaseReader" THEN "r" ELSE IF cls = "BaseWriter" THEN "w" ELSE ""

\* `mode = mode or self.conf.get('mode', default)` of BaseReader/BaseWriter.open
ResolveMode(cls, kw, conf) ==
    IF StrArgGiven(kw, "mode") THEN kw["mode"]
    ELSE Get(conf, "mode", DefaultMode(cls))

\* a faulty variant: the base class resolves a default mode as well
SuperKwAlways(cls, kw, conf) ==
    Put(kw, "mode", IF StrArgGiven(kw, "mode") THEN kw["mode"]
                    ELSE Get(conf, "mode", "r"))

\* the keyword arguments BaseReader/BaseWriter.open hand to super().open
SuperKw(cls, kw, conf) ==
    IF cls \in {"BaseReader", "BaseWriter"}
    THEN Put(kw, "mode", ResolveMode(cls, kw, conf))
    ELSE kw

(***************************************************************************)
(* The backends: io.open, fsspec and io.StringIO.  What the outside world  *)
(* decides (does the file exist, what does it hold, does the transport     *)
(* fail) is the parameter b \in BackendOutcomes and the content.           *)
(***************************************************************************)
BackendOutcomes == {"ok", "fail"}

IsBinary(mode) == mode \in {"rb", "wb"}
IsWrite(mode) == mode \in {"w", "wb"}

\* urllib.parse.urlparse(s).scheme for the identifiers of the model
RECURSIVE SchemeLen(_, _)
SchemeLen(s, i) ==
    IF i > Len(s) THEN 0
    ELSE IF s[i] = ":" THEN i - 1
    ELSE IF LowerChar(s[i]) \in {LowerCase[j] : j \in DOMAIN LowerCase}
    THEN SchemeLen(s, i + 1)
    ELSE 0

Scheme(s) == Lower(SubSeq(s, 1, SchemeLen(s, 1)))

Handle(kind, mode, buf, protocol) ==
    [kind |-> kind, mode |-> mode, buf |-> buf, pos |-> 0, closed |-> FALSE,
     remote |-> (kind = "url"), protocol |-> protocol]

\* io.open(self.iostream, **opts)
FileOpen(iostream, opts, b, content) ==
    LET mode == Get(opts, "mode", "r") IN
    IF iostream.t = "NoneType" THEN [err |-> "TypeError", fp |-> <<>>]
    ELSE IF mode = "" \/ (IsBinary(mode) /\ Has(opts, "encoding"))
    THEN [err |-> "ValueError", fp |-> <<>>]
    ELSE IF b = "fail" THEN [err |-> "OSError", fp |-> <<>>]
    ELSE [err |-> "ok",
          fp |-> <<Handle("file", mode, IF IsWrite(mode) THEN <<>> ELSE content, <<>>)>>]

\* urlparse, fsspec.filesystem(protocol, **fs_opts) and fs.open(self.iostream, **opts)
UrlOpen(iostream, opts, b, content) ==
    LET mode == Get(opts, "mode", "rb") IN
    IF iostream.t \notin {"str", "NoneType"} THEN [err |-> "AttributeError", fp |-> <<>>]
    ELSE IF iostream.t = "NoneType" \/ b = "fail"
    THEN [err |-> "BackendError", fp |-> <<>>]
    ELSE [err |-> "ok",
          fp |-> <<Handle("url", mode, IF IsWrite(mode) THEN <<>> ELSE content,
                          Scheme(iostream.s))>>]

\* a faulty variant: the initial value must be a str
StrOpenNeedsStr(iostream, opts) ==
    IF DOMAIN opts # {} \/ iostream.t # "str"
    THEN [err |-> "TypeError", fp |-> <<>>]
    ELSE [err |-> "ok", fp |-> <<Handle("str", "", iostream.s, <<>>)>>]

\* io.StringIO(self.iostream, **opts): no encoding and no mode keyword
\* exists, and the initial value must be a str or None
StrOpen(iostream, opts) ==
    IF DOMAIN opts # {} \/ iostream.t \notin {"str", "NoneType"}
    THEN [err |-> "TypeError", fp |-> <<>>]
    ELSE [err |-> "ok", fp |-> <<Handle("str", "", iostream.s, <<>>)>>]

\* fp.read(): the whole remaining contents
HandleRead(h, b) ==
    LET rest == SubSeq(h.buf, h.pos + 1, Len(h.buf))
        done == [h EXCEPT !.pos = Len(h.buf)]
    IN  IF h.closed THEN [err |-> "ValueError", fp |-> <<h>>, data |-> None]
        ELSE IF h.kind = "str" THEN [err |-> "ok", fp |-> <<done>>, data |-> Str(rest)]
        ELSE IF IsWrite(h.mode)
        THEN [err |-> "UnsupportedOperation", fp |-> <<h>>, data |-> None]
        ELSE IF b = "fail" THEN [err |-> "UnicodeDecodeError", fp |-> <<h>>, data |-> None]
        ELSE [err |-> "ok", fp |-> <<done>>,
              data |-> IF IsBinary(h.mode) THEN Bytes(rest) ELSE Str(rest)]

\* fp.write(data): overwrite from the current position
HandleWrite(h, data, b) ==
    LET n == Len(data.s)
        out == SubSeq(h.buf, 1, h.pos) \o data.s
               \o SubSeq(h.buf, h.pos + n + 1, Len(h.buf))
        done == [h EXCEPT !.buf = out, !.pos = h.pos + n]
    IN  IF h.closed THEN [err |-> "ValueError", fp |-> <<h>>]
        ELSE IF h.kind = "str"
        THEN IF data.t = "str" THEN [err |-> "ok", fp |-> <<done>>]
             ELSE [err |-> "TypeError", fp |-> <<h>>]
        ELSE IF ~IsWrite(h.mode) THEN [err |-> "UnsupportedOperation", fp |-> <<h>>]
        ELSE IF data.t # (IF IsBinary(h.mode) THEN "bytes" ELSE "str")
        THEN [err |-> "TypeError", fp |-> <<h>>]
        ELSE IF b = "fail" THEN [err |-> "OSError", fp |-> <<h>>]
        ELSE [err |-> "ok", fp |-> <<done>>]

\* fp.close(): a StringIO and an already closed stream close without error; a
\* file or remote stream may fail to flush, and then the backend decides
\* whether the stream ends up closed (released)
HandleClose(h, b, released) ==
    IF h.closed \/ h.kind = "str" \/ b = "ok"
    THEN [err |-> "ok", h |-> [h EXCEPT !.closed = TRUE]]
    ELSE [err |-> "OSError", h |-> [h EXCEPT !.closed = released]]

(***************************************************************************)
(* Inputs of the model                                                     *)
(***************************************************************************)
Endpoints == {"reader", "writer"}
ClassOf(e) == IF e = "reader" THEN "BaseReader" ELSE "BaseWriter"

\* The dict objects are "default", the default argument `conf={}` of __init__
\* (evaluated once and shared by every call that leaves conf out), and "rsec"
\* and "wsec", the dicts the caller or the workflow's conf holds for the
\* reader and for the writer.
NoLog == <<>>
Call(op, e, err, kw) == [op |-> op, ep |-> e, err |-> err, kw |-> kw]

(***************************************************************************)
(* BaseContextManager.__init__ (and the BaseReader/BaseWriter wrappers)    *)
(***************************************************************************)

\* a faulty variant: the configuration's iotype entry wins over the argument
NewEndpointConfFirst(cls, iostream, iotype, conf) ==
    IF iotype = <<>> /\ conf = "None"
    THEN [err |-> "TypeError", self |-> <<>>]
    ELSE [err |-> "ok",
          self |-> <<[cls |-> cls,
                      iostream |-> iostream,
                      iotype |-> IF conf = "None" THEN iotype
                                 ELSE Get(confs[conf], "iotype", iotype),
                      conf |-> conf,
                      fp |-> <<>>,
                      data |-> None]>>]

\* conf is a dict object id, or "None" for conf=None; subscripting None
\* raises TypeError, which only `except KeyError` does not catch
NewEndpoint(cls, iostream, iotype, conf) ==
    IF iotype = <<>> /\ conf = "None"
    THEN [err |-> "TypeError", self |-> <<>>]
    ELSE [err |-> "ok",
          self |-> <<[cls |-> cls,
                      iostream |-> iostream,
                      iotype |-> IF iotype # <<>> THEN iotype
                                 ELSE Get(confs[conf], "iotype", <<>>),
                      conf |-> conf,
                      fp |-> <<>>,
                      data |-> None]>>]

\* what the endpoint has been told about mode and encoding so far: at
\* construction, the entries of its configuration
InitPassed(conf) ==
    [k \in (DOMAIN conf) \cap {"mode", "encoding"} |-> conf[k]]

\* ... and after an open call, the arguments that call passed
NotePassed(p, kw) ==
    [k \in (DOMAIN p) \cup ((DOMAIN kw) \cap {"mode", "encoding"}) |->
        IF k \in DOMAIN kw THEN kw[k] ELSE p[k]]

(***************************************************************************)
(* BaseContextManager.open with the BaseReader/BaseWriter wrappers: the    *)
(* state after the call and the exception it raises ("ok" for none).     *)
(***************************************************************************)

\* nothing was handed to a backend
NoSent == [backend |-> "", opts |-> EmptyDict, fs_opts |-> EmptyDict]

\* the backend of the branch taken, the options open has constructed for
\* its open call and, for url, the options fsspec.filesystem is called with
Sent(d, opts, kw) ==
    IF d = "unsupported" THEN NoSent
    ELSE [backend |-> d, opts |-> opts,
          fs_opts |-> IF d = "url" THEN FsOpts(kw) ELSE EmptyDict]

OpenEffect(e, kw, b, content) ==
    LET self == ep[e]
        kw2 == SuperKw(self.cls, kw, confs[self.conf])
        io1 == OpenIostream(self, kw2)
        kind1 == OpenIotype(self, kw2)
        conf1 == OpenConf(confs[self.conf], kw2)
        opts == ConstructOpenOpts(kind1, conf1)
        d == Dispatch(kind1)
        res == IF d = "file" THEN FileOpen(io1, opts, b, content)
               ELSE IF d = "url" THEN UrlOpen(io1, opts, b, content)
               ELSE IF d = "str" THEN StrOpen(io1, opts)
               ELSE [err |-> "TypeError: unsupported iotype", fp |-> <<>>]
    IN  [err |-> res.err,
         ep |-> [ep EXCEPT ![e] = [self EXCEPT !.iostream = io1,
                                               !.iotype = kind1,
                                               !.fp = IF res.err = "ok" THEN res.fp
                                                      ELSE self.fp]],
         confs |-> [confs EXCEPT ![self.conf] = conf1],
         alive |-> IF res.err = "ok" THEN [alive EXCEPT ![e] = @ + 1] ELSE alive,
         sent |-> Sent(d, opts, kw2)]

(***************************************************************************)
(* BaseContextManager.close                                                *)
(***************************************************************************)
\* a faulty variant: close forgets `self.fp = None`
CloseEffectKeepsFp(e, b, released) ==
    LET self == ep[e] IN
    IF self.fp = <<>>
    THEN [err |-> "AttributeError", ep |-> ep, alive |-> alive]
    ELSE LET h == self.fp[1]
             res == HandleClose(h, b, released)
             freed == IF ~h.closed /\ res.h.closed THEN 1 ELSE 0
         IN  [err |-> res.err,
              ep |-> [ep EXCEPT ![e].fp = <<res.h>>],
              alive |-> [alive EXCEPT ![e] = @ - freed]]

CloseEffect(e, b, released) ==
    LET self == ep[e] IN
    IF self.fp = <<>>
    THEN [err |-> "AttributeError", ep |-> ep, alive |-> alive]
    ELSE LET h == self.fp[1]
             res == HandleClose(h, b, released)
             freed == IF ~h.closed /\ res.h.closed THEN 1 ELSE 0
         IN  [err |-> res.err,
              ep |-> [ep EXCEPT ![e].fp = IF res.err = "ok" THEN <<>> ELSE <<res.h>>],
              alive |-> [alive EXCEPT ![e] = @ - freed]]

(***************************************************************************)
(* BaseReader.read                                                         *)
(***************************************************************************)
ReadEffect(e, b) ==
    LET self == ep[e] IN
    IF self.fp = <<>>
    THEN [err |-> "AttributeError", ep |-> ep, data |-> None]
    ELSE LET res == HandleRead(self.fp[1], b) IN
         [err |-> res.err,
          ep |-> [ep EXCEPT ![e] = [self EXCEPT !.fp = res.fp,
                                                !.data = IF res.err = "ok" THEN res.data
                                                         ELSE self.data]],
          data |-> res.data]

(***************************************************************************)
(* BaseWriter.infill_template, transform and write                         *)
(***************************************************************************)

\* the rendering engine is a black box: it fails or returns some text
InfillTemplate(data, tpl, tb, rendered) ==
    IF tpl = "" THEN [err |-> "ok", output |-> <<data>>]
    ELSE IF tb = "fail" THEN [err |-> "TemplateError", output |-> <<>>]
    ELSE [err |-> "ok", output |-> <<Str(rendered)>>]

WriteEffect(e, data, tb, rendered, b) ==
    LET self == ep[e]
        t == InfillTemplate(data, template, tb, rendered)
    IN  IF t.err # "ok" THEN [err |-> t.err, ep |-> ep]
        ELSE LET out == t.output[1]
                 self1 == [self EXCEPT !.data = out]
             IN  IF self.fp = <<>>
                 THEN [err |-> "AttributeError", ep |-> [ep EXCEPT ![e] = self1]]
                 ELSE LET res == HandleWrite(self.fp[1], out, b) IN
                      [err |-> res.err,
                       ep |-> [ep EXCEPT ![e] = [self1 EXCEPT !.fp = res.fp]]]

(***************************************************************************)
(* Initial state: the two dict objects hold some configuration, and the    *)
(* reader and the writer have been constructed on them,                    *)
(* BaseReader(iostream=i, conf=rsec) and BaseWriter(iostream=i, conf=wsec) *)
(***************************************************************************)
Templates == {"", "/t.j2"}

WorkflowConfs == {[reader |-> "rsec", writer |-> "wsec"], [writer |-> "wsec"]}

OwnConf(e) == IF e = "reader" THEN "rsec" ELSE "wsec"

\* cls gives the class each of the two instances is constructed from, own
\* the dict object it is given as conf ("default" when conf is left out)
InitOf(cls, own, confPairs, identifiers, wfConfs, templates) ==
    /\ \E cc \in confPairs :
          confs = [default |-> EmptyDict, rsec |-> cc[1], wsec |-> cc[2]]
    /\ \E i \in identifiers :
          ep = [e \in Endpoints |->
                  NewEndpoint(cls[e], i, <<>>, own[e]).self[1]]
    /\ alive = [e \in Endpoints |-> 0]
    /\ wf \in {[conf |-> c, source |-> None, sink |-> None] : c \in wfConfs}
    /\ template \in templates
    /\ pc = "idle"
    /\ exc = ""
    /\ proc = [input |-> None]
    /\ log = NoLog
    /\ passed = [e \in Endpoints |-> InitPassed(confs[own[e]])]
    /\ sent = [e \in Endpoints |-> NoSent]
    /\ calls = 0

InitWith(confPairs, identifiers, wfConfs, templates) ==
    InitOf([e \in Endpoints |-> ClassOf(e)], [e \in Endpoints |-> OwnConf(e)],
           confPairs, identifiers, wfConfs, templates)

TopLevel == pc = "idle" /\ calls < MaxCalls

(***************************************************************************)
(* The operations called from outside                                     *)
(***************************************************************************)

\* BaseReader(iostream=, iotype=, conf=) / BaseWriter(...): a new instance
\* takes the place of the old one
Construct(e, iostream, iotype, conf) ==
    /\ TopLevel
    /\ LET new == NewEndpoint(ClassOf(e), iostream, iotype, conf) IN
       /\ IF new.err = "ok"
          THEN /\ ep' = [ep EXCEPT ![e] = new.self[1]]
               /\ alive' = [alive EXCEPT ![e] = 0]
               /\ passed' = [passed EXCEPT ![e] = InitPassed(confs[conf])]
               /\ sent' = [sent EXCEPT ![e] = NoSent]
          ELSE UNCHANGED <<ep, alive, passed, sent>>
       /\ log' = <<Call("init", e, new.err, [iotype |-> iotype])>>
    /\ calls' = calls + 1
    /\ UNCHANGED <<confs, wf, template, pc, exc, proc>>

Open(e, kw, b, content) ==
    /\ TopLevel
    /\ alive[e] < MaxAlive
    /\ LET r == OpenEffect(e, kw, b, content) IN
       /\ ep' = r.ep
       /\ confs' = r.confs
       /\ alive' = r.alive
       /\ sent' = [sent EXCEPT ![e] = r.sent]
       /\ log' = <<Call("open", e, r.err, kw)>>
    /\ passed' = [passed EXCEPT ![e] = NotePassed(@, kw)]
    /\ calls' = calls + 1
    /\ UNCHANGED <<wf, template, pc, exc, proc>>

Close(e, b, released) ==
    /\ TopLevel
    /\ LET r == CloseEffect(e, b, released) IN
       /\ ep' = r.ep
       /\ alive' = r.alive
       /\ log' = <<Call("close", e, r.err, EmptyDict)>>
    /\ calls' = calls + 1
    /\ UNCHANGED <<confs, wf, template, pc, exc, proc, passed, sent>>

Read(b) ==
    /\ TopLevel
    /\ LET r == ReadEffect("reader", b) IN
       /\ ep' = r.ep
       /\ log' = <<Call("read", "reader", r.err, EmptyDict)>>
    /\ calls' = calls + 1
    /\ UNCHANGED <<confs, alive, wf, template, pc, exc, proc, passed, sent>>

Write(data, tb, rendered, b) ==
    /\ TopLevel
    /\ LET r == WriteEffect("writer", data, tb, rendered, b) IN
       /\ ep' = r.ep
       /\ log' = <<Call("write", "writer", r.err, [data |-> data])>>
    /\ calls' = calls + 1
    /\ UNCHANGED <<confs, alive, wf, template, pc, exc, proc, passed, sent>>

(***************************************************************************)
(* BaseProcessor.process, one step per call it makes.  `with x as fp:`     *)
(* calls x.__enter__(); if that raises, the body and __exit__ are skipped; *)
(* otherwise the body runs and x.__exit__ is called whether or not the     *)
(* body raised.  An exception raised by __exit__ replaces the one in       *)
(* flight; otherwise the one in flight is re-raised unless __exit__        *)
(* returned a true value.                                                  *)
(***************************************************************************)

\* a faulty variant: __exit__ returns True
ExitReturnTrue == TRUE

\* the value __exit__ returns
ExitReturn == FALSE

\* a faulty variant: the failure of the body wins over the failure of close
RaisedBodyFirst(closeErr, inflight) ==
    IF inflight # "" THEN inflight
    ELSE IF closeErr # "ok" THEN closeErr ELSE ""

\* a faulty variant: __exit__ swallows the failure of close
RaisedCloseSwallowed(closeErr, inflight) ==
    IF ExitReturn THEN "" ELSE inflight

\* what leaves the with statement ("" for nothing), given what close raised
\* ("ok" for nothing) and the exception of the body in flight ("" for none)
Raised(closeErr, inflight) ==
    IF closeErr # "ok" THEN closeErr
    ELSE IF ExitReturn THEN "" ELSE inflight

\* BaseProcessor(reader, writer).process() on the current reader and writer
ProcessStart ==
    /\ TopLevel
    /\ \A e \in Endpoints : alive[e] < MaxAlive
    /\ pc' = "r_enter"
    /\ exc' = ""
    /\ proc' = [input |-> None]
    /\ log' = <<Call("process", "", "ok", EmptyDict)>>
    /\ calls' = calls + 1
    /\ UNCHANGED <<confs, ep, alive, wf, template, passed, sent>>

\* __enter__: self.open(iostream=self.iostream)
Enter(e, body, b, content) ==
    /\ pc = (IF e = "reader" THEN "r_enter" ELSE "w_enter")
    /\ LET kw == [iostream |-> ep[e].iostream]
           r == OpenEffect(e, kw, b, content)
       IN  /\ ep' = r.ep
           /\ confs' = r.confs
           /\ alive' = r.alive
           /\ sent' = [sent EXCEPT ![e] = r.sent]
           /\ passed' = [passed EXCEPT ![e] = NotePassed(@, kw)]
           /\ IF r.err = "ok"
              THEN /\ pc' = body
                   /\ exc' = exc
                   /\ log' = Append(log, Call("open", e, r.err, kw))
              ELSE /\ pc' = "idle"
                   /\ exc' = ""
                   /\ log' = Append(Append(log, Call("open", e, r.err, kw)),
                                    Call("process_end", "", r.err, EmptyDict))
    /\ UNCHANGED <<wf, template, proc, calls>>

\* the body of the first with: self.input = fp.read()
ReadBody(b) ==
    /\ pc = "r_body"
    /\ LET r == ReadEffect("reader", b) IN
       /\ ep' = r.ep
       /\ proc' = IF r.err = "ok" THEN [proc EXCEPT !.input = r.data] ELSE proc
       /\ exc' = IF r.err = "ok" THEN "" ELSE r.err
       /\ log' = Append(log, Call("read", "reader", r.err, EmptyDict))
    /\ pc' = "r_exit"
    /\ UNCHANGED <<confs, alive, wf, template, passed, sent, calls>>

\* the body of the second with: fp.write(self.input)
WriteBody(tb, rendered, b) ==
    /\ pc = "w_body"
    /\ LET r == WriteEffect("writer", proc.input, tb, rendered, b) IN
       /\ ep' = r.ep
       /\ exc' = IF r.err = "ok" THEN "" ELSE r.err
       /\ log' = Append(log, Call("write", "writer", r.err, [data |-> proc.input]))
    /\ pc' = "w_exit"
    /\ UNCHANGED <<confs, alive, wf, template, proc, passed, sent, calls>>

\* __exit__: self.close(); return False.  `next` is where control goes when
\* nothing is raised out of the with statement
Exit(e, next, b, released) ==
    /\ pc = (IF e = "reader" THEN "r_exit" ELSE "w_exit")
    /\ LET r == CloseEffect(e, b, released)
           raised == Raised(r.err, exc)
           closed == Append(log, Call("close", e, r.err, EmptyDict))
       IN  /\ ep' = r.ep
           /\ alive' = r.alive
           /\ IF raised = "" /\ next # "idle"
              THEN /\ pc' = next
                   /\ exc' = ""
                   /\ log' = closed
              ELSE /\ pc' = "idle"
                   /\ exc' = ""
                   /\ log' = Append(closed,
                                    Call("process_end", "",
                                         IF raised = "" THEN "ok" ELSE raised,
                                         EmptyDict))
    /\ UNCHANGED <<confs, wf, template, proc, passed, sent, calls>>

(***************************************************************************)
(* BaseWorkflow.run: store source and sink, build a new reader and a new   *)
(* writer on the conf's sections, and process.  The conf has no logger     *)
(* section, so setup_logging does nothing.                                 *)
(***************************************************************************)

\* BaseWorkflow.get_conf_section: the section's dict object, or None
GetConfSection(section) == Get(wf.conf, section, "None")

Run(source, sink) ==
    /\ TopLevel
    /\ LET r == NewEndpoint("BaseReader", source, <<>>, GetConfSection("reader"))
           w == NewEndpoint("BaseWriter", sink, <<>>, GetConfSection("writer"))
           kw == [source |-> source, sink |-> sink]
       IN  /\ wf' = [wf EXCEPT !.source = source, !.sink = sink]
           /\ IF r.err # "ok"
              THEN /\ UNCHANGED <<ep, alive, passed, sent, pc, proc>>
                   /\ log' = <<Call("run", "", "ok", kw),
                               Call("init", "reader", r.err, EmptyDict),
                               Call("process_end", "", r.err, EmptyDict)>>
              ELSE IF w.err # "ok"
              THEN /\ ep' = [ep EXCEPT !["reader"] = r.self[1]]
                   /\ alive' = [alive EXCEPT !["reader"] = 0]
                   /\ passed' = [passed EXCEPT
                                   !["reader"] = InitPassed(confs[r.self[1].conf])]
                   /\ sent' = [sent EXCEPT !["reader"] = NoSent]
                   /\ UNCHANGED <<pc, proc>>
                   /\ log' = <<Call("run", "", "ok", kw),
                               Call("init", "writer", w.err, EmptyDict),
                               Call("process_end", "", w.err, EmptyDict)>>
              ELSE /\ ep' = [reader |-> r.self[1], writer |-> w.self[1]]
                   /\ alive' = [e \in Endpoints |-> 0]
                   /\ passed' = [e \in Endpoints |->
                                   InitPassed(confs[IF e = "reader"
                                                    THEN r.self[1].conf
                                                    ELSE w.self[1].conf])]
                   /\ sent' = [e \in Endpoints |-> NoSent]
                   /\ pc' = "r_enter"
                   /\ proc' = [input |-> None]
                   /\ log' = <<Call("run", "", "ok", kw)>>
    /\ exc' = ""
    /\ calls' = calls + 1
    /\ UNCHANGED <<confs, template>>

(***************************************************************************)
(* Specifications.  Each one draws the inputs of one part of the protocol  *)
(* from small sets; the operations are the same in all of them.            *)
(***************************************************************************)
Same(S) == {<<c, c>> : c \in S}
OneContent == {<<"X">>}

\* Mode and encoding resolution: opens (and closes) of a reader and a
\* writer of every supported kind, with and without a configured mode
ModeConfs ==
    {[iotype |-> KindStr],
     [iotype |-> KindFile],
     [iotype |-> KindUrl],
     [iotype |-> KindStr, mode |-> "r"],
     [iotype |-> KindFile, mode |-> "w", encoding |-> "utf-8"]}

ModeKws ==
    {EmptyDict} \cup
    {[mode |-> m] : m \in {"", "rb", "w"}} \cup
    {[encoding |-> c] : c \in {"", "ascii", "utf-8"}}

InitMode == InitWith(Same(ModeConfs), {Str(<<"X">>)}, {[reader |-> "rsec", writer |-> "wsec"]}, {""})

NextMode ==
    \/ \E e \in Endpoints, kw \in ModeKws, b \in BackendOutcomes, c \in OneContent :
          Open(e, kw, b, c)
    \/ \E e \in Endpoints, b \in BackendOutcomes, released \in BOOLEAN :
          Close(e, b, released)

SpecMode == InitMode /\ [][NextMode]_vars

\* Kind validation: endpoints constructed and opened with supported,
\* differently cased and unsupported kinds
KindString == <<"s", "t", "r", "i", "n", "g">>
KindXml == <<"x", "m", "l">>
KindArgs == {<<>>, KindFile, <<"U", "R", "L">>, <<"S", "t", "r">>, KindString, KindXml}

KindKws == {EmptyDict} \cup {[iotype |-> k] : k \in KindArgs}

InitKind ==
    InitWith(Same({EmptyDict, [iotype |-> KindStr], [iotype |-> KindXml]}),
             {Str(<<"X">>)}, {[reader |-> "rsec", writer |-> "wsec"]}, {""})

NextKind ==
    \/ \E e \in Endpoints, i \in {Str(<<"X">>)}, k \in KindArgs :
          Construct(e, i, k, OwnConf(e))
    \/ \E e \in Endpoints, kw \in KindKws, b \in BackendOutcomes, c \in OneContent :
          Open(e, kw, b, c)

SpecKind == InitKind /\ [][NextKind]_vars

\* Lifecycle: open, read, write and close in any order, on in-memory and
\* on file endpoints whose backend may fail
Data == {Str(<<"Y">>), Bytes(<<"Y">>)}

InitLife ==
    InitWith(Same({[iotype |-> KindStr], [iotype |-> KindFile]}),
             {Str(<<"X">>)}, {[reader |-> "rsec", writer |-> "wsec"]}, Templates)

NextLife ==
    \/ \E e \in Endpoints, b \in BackendOutcomes, c \in OneContent :
          Open(e, EmptyDict, b, c)
    \/ \E e \in Endpoints, b \in BackendOutcomes, released \in BOOLEAN :
          Close(e, b, released)
    \/ \E b \in BackendOutcomes : Read(b)
    \/ \E d \in Data, tb \in BackendOutcomes, t \in OneContent, b \in BackendOutcomes :
          Write(d, tb, t, b)

SpecLife == InitLife /\ [][NextLife]_vars

\* The transfer step: process() on a reader and a writer that the caller
\* may have opened before, of in-memory and of file kind
InitProc ==
    InitWith({<<[iotype |-> KindStr], [iotype |-> KindStr]>>,
              <<[iotype |-> KindFile], [iotype |-> KindFile]>>,
              <<[iotype |-> KindFile, mode |-> "rb"], [iotype |-> KindStr]>>},
             {Str(<<"X">>)}, {[reader |-> "rsec", writer |-> "wsec"]}, Templates)

ProcessSteps ==
    \/ \E b \in BackendOutcomes, c \in OneContent : Enter("reader", "r_body", b, c)
    \/ \E b \in BackendOutcomes : ReadBody(b)
    \/ \E b \in BackendOutcomes, released \in BOOLEAN :
          Exit("reader", "w_enter", b, released)
    \/ \E b \in BackendOutcomes, c \in OneContent : Enter("writer", "w_body", b, c)
    \/ \E tb \in BackendOutcomes, t \in OneContent, b \in BackendOutcomes :
          WriteBody(tb, t, b)
    \/ \E b \in BackendOutcomes, released \in BOOLEAN :
          Exit("writer", "idle", b, released)

NextProc ==
    \/ \E e \in Endpoints, b \in BackendOutcomes, c \in OneContent :
          Open(e, EmptyDict, b, c)
    \/ ProcessStart
    \/ ProcessSteps

SpecProc == InitProc /\ [][NextProc]_vars

\* The workflow: run(source, sink) on a conf whose sections are in-memory
\* or file endpoints, with or without an encoding
Sources == {None, Str(<<>>), Str(<<"X", "Y">>)}
Sinks == {None, Str(<<"Z">>)}

InitRun ==
    InitWith({<<[iotype |-> KindStr], [iotype |-> KindStr]>>,
              <<[iotype |-> <<"S", "T", "R">>, mode |-> "rb"], [iotype |-> KindStr]>>,
              <<[iotype |-> KindStr, encoding |-> "utf-8"], [iotype |-> KindStr]>>,
              <<[iotype |-> KindFile], [iotype |-> KindFile]>>,
              <<[iotype |-> KindFile], EmptyDict>>},
             {None}, WorkflowConfs, Templates)

NextRun ==
    \/ \E source \in Sources, sink \in Sinks : Run(source, sink)
    \/ ProcessSteps

SpecRun == InitRun /\ [][NextRun]_vars

\* Absent identifier: endpoints constructed without an identifier, of
\* in-memory kind, of file kind and of no kind, are opened (with or without
\* a kind argument), read and closed
AbsentKws == {EmptyDict, [iotype |-> KindStr], [iotype |-> KindFile]}

InitAbsent ==
    InitWith(Same({[iotype |-> KindStr], [iotype |-> KindFile], EmptyDict}),
             {None}, {[reader |-> "rsec", writer |-> "wsec"]}, {""})

NextAbsent ==
    \/ \E e \in Endpoints, kw \in AbsentKws, b \in BackendOutcomes, c \in OneContent :
          Open(e, kw, b, c)
    \/ \E b \in BackendOutcomes : Read(b)
    \/ \E e \in Endpoints, b \in BackendOutcomes, released \in BOOLEAN :
          Close(e, b, released)

SpecAbsent == InitAbsent /\ [][NextAbsent]_vars

\* Backend options: opens of url endpoints that pass keyword arguments
\* other than the four named ones
UrlIdentifier == Str(<<"s", "3", ":", "x">>)

FsKws ==
    {EmptyDict} \cup
    {[fs_opts |-> o] : o \in {[anon |-> "1"], [anon |-> "2"], [token |-> "t"]}}

InitUrl ==
    InitWith(Same({[iotype |-> KindUrl], [iotype |-> KindUrl, mode |-> "rb"]}),
             {UrlIdentifier}, {[reader |-> "rsec", writer |-> "wsec"]}, {""})

NextUrl ==
    \/ \E e \in Endpoints, kw \in FsKws, b \in BackendOutcomes, c \in OneContent :
          Open(e, kw, b, c)
    \/ \E e \in Endpoints, b \in BackendOutcomes, released \in BOOLEAN :
          Close(e, b, released)

SpecUrl == InitUrl /\ [][NextUrl]_vars

\* Endpoints constructed without a conf argument: BaseReader(iostream=i) and
\* BaseWriter(iostream=i), later constructed anew with or without a conf,
\* and opened with the kind (and perhaps a mode) passed to open
SharedKws ==
    {EmptyDict, [iotype |-> KindStr], [iotype |-> KindStr, mode |-> "rb"]}

InitShared ==
    InitOf([e \in Endpoints |-> ClassOf(e)], [e \in Endpoints |-> "default"],
           Same({[iotype |-> KindStr]}), {Str(<<"X">>)},
           {[reader |-> "rsec", writer |-> "wsec"]}, {""})

NextShared ==
    \/ \E e \in Endpoints, k \in {<<>>, KindStr} :
          \E c \in {"default", OwnConf(e)} : Construct(e, Str(<<"X">>), k, c)
    \/ \E e \in Endpoints, kw \in SharedKws, b \in BackendOutcomes, c \in OneContent :
          Open(e, kw, b, c)

SpecShared == InitShared /\ [][NextShared]_vars

\* Arguments of open: each of identifier, kind, mode and encoding passed to
\* open, as an empty and as a non-empty string
ArgKws ==
    {[iostream |-> i] : i \in {Str(<<>>), Str(<<"Y">>)}} \cup
    {[iotype |-> k] : k \in {<<>>, KindFile}} \cup
    {[mode |-> m] : m \in {"", "rb"}} \cup
    {[encoding |-> c] : c \in {"", "ascii"}}

InitArgs ==
    InitWith(Same({[iotype |-> KindStr], [iotype |-> KindFile, encoding |-> "utf-8"]}),
             {Str(<<"X">>)}, {[reader |-> "rsec", writer |-> "wsec"]}, {""})

NextArgs ==
    \/ \E e \in Endpoints, kw \in ArgKws, b \in BackendOutcomes, c \in OneContent :
          Open(e, kw, b, c)
    \/ \E e \in Endpoints, b \in BackendOutcomes, released \in BOOLEAN :
          Close(e, b, released)

SpecArgs == InitArgs /\ [][NextArgs]_vars

\* The base class: two BaseContextManager instances on the configurations
\* and with the open arguments of test_effective_conf, and with a backend
\* option
BaseConfs ==
    {EmptyDict,
     [iotype |-> KindFile, mode |-> "r"],
     [iotype |-> KindFile, mode |-> "r", encoding |-> "utf-8"],
     [iotype |-> KindStr, mode |-> "w"]}

BaseKws ==
    {EmptyDict,
     [mode |-> "rb"],
     [encoding |-> "latin-1"],
     [iotype |-> KindFile],
     [iotype |-> KindFile, mode |-> "rb"],
     [iotype |-> KindFile, mode |-> "r", encoding |-> "utf-8"],
     [fs_opts |-> [anon |-> "1"]]}

InitBase ==
    InitOf([e \in Endpoints |-> "BaseContextManager"], [e \in Endpoints |-> OwnConf(e)],
           Same(BaseConfs), {Str(<<"X">>)}, {[reader |-> "rsec", writer |-> "wsec"]}, {""})

NextBase ==
    \/ \E e \in Endpoints, kw \in BaseKws, b \in BackendOutcomes, c \in OneContent :
          Open(e, kw, b, c)
    \/ \E e \in Endpoints, b \in BackendOutcomes, released \in BOOLEAN :
          Close(e, b, released)

SpecBase == InitBase /\ [][NextBase]_vars

\* Failed opens and what follows them: endpoints whose kind is unsupported
\* or whose identifier is absent or not a str (as in the tests), opened
\* with and without a new identifier and kind, on backends that may fail,
\* then read and closed
RetryKws ==
    {EmptyDict,
     [iostream |-> Str(<<"Y">>)],
     [iotype |-> KindFile],
     [iostream |-> Str(<<"Y">>), iotype |-> KindFile]}

InitRetry ==
    InitWith(Same({[iotype |-> KindXml], [iotype |-> KindFile], [iotype |-> KindStr]}),
             {None, Int42}, {[reader |-> "rsec", writer |-> "wsec"]}, {""})

NextRetry ==
    \/ \E e \in Endpoints, kw \in RetryKws, b \in BackendOutcomes, c \in OneContent :
          Open(e, kw, b, c)
    \/ \E b \in BackendOutcomes : Read(b)
    \/ \E e \in Endpoints, b \in BackendOutcomes, released \in BOOLEAN :
          Close(e, b, released)

SpecRetry == InitRetry /\ [][NextRetry]_vars

(***************************************************************************)
(* Properties                                                              *)
(***************************************************************************)

\* this step is a top-level open call on endpoint e (its arguments are log'[1].kw)
OpenCall(e) ==
    /\ pc = "idle" /\ pc' = "idle" /\ calls' = calls + 1
    /\ log'[1].op = "open" /\ log'[1].ep = e

\* the configuration of endpoint e
ConfOf(e) == confs[ep[e].conf]

\* C1: an open with no mode argument on an endpoint whose configuration has
\* no mode entry leaves mode 'r' in a reader's configuration and 'w' in a
\* writer's, whatever the kind and whether or not the backend open succeeds
C1_DefaultMode ==
    [][\A e \in Endpoints :
          (OpenCall(e) /\ ~Has(log'[1].kw, "mode") /\ ~Has(ConfOf(e), "mode"))
          => /\ Has(ConfOf(e)', "mode")
             /\ ConfOf(e)'["mode"] = (IF ep[e].cls = "BaseReader" THEN "r" ELSE "w")]_vars

\* a writer of url kind, whose configuration never had a mode and which was
\* never given one, has been opened and its configuration now says 'w'
C1_Witness ==
    /\ log # NoLog /\ log[1].op = "open" /\ log[1].ep = "writer" /\ log[1].err = "ok"
    /\ ~Has(passed["writer"], "mode")
    /\ Lower(ep["writer"].iotype) = KindUrl
    /\ ep["writer"].fp # <<>>
    /\ Has(ConfOf("writer"), "mode") /\ ConfOf("writer")["mode"] = "w"

\* C2: whatever mode the configuration holds, after an open call that passes
\* a mode argument m the configuration's mode is m
C2_ExplicitModeWins ==
    [][\A e \in Endpoints :
          (OpenCall(e) /\ Has(log'[1].kw, "mode"))
          => /\ Has(ConfOf(e)', "mode")
             /\ ConfOf(e)'["mode"] = log'[1].kw["mode"]]_vars

\* what the earlier calls said the mode (k = "mode") or encoding of e is
Told(e, k) == Has(passed[e], k)

\* C3: an open call that passes no mode uses the mode most recently passed to
\* an earlier open of that endpoint (or the initial configuration's, or the
\* default), and likewise for the encoding
C3_ConfigPersists ==
    [][\A e \in Endpoints :
          /\ (OpenCall(e) /\ ~Has(log'[1].kw, "mode"))
             => /\ Has(ConfOf(e)', "mode")
                /\ ConfOf(e)'["mode"] =
                      Get(passed[e], "mode", IF ep[e].cls = "BaseReader" THEN "r" ELSE "w")
          /\ (OpenCall(e) /\ ~Has(log'[1].kw, "encoding"))
             => /\ Has(ConfOf(e)', "encoding") <=> Told(e, "encoding")
                /\ Told(e, "encoding") => ConfOf(e)'["encoding"] = passed[e]["encoding"]]_vars

\* this step is a top-level constructor call for endpoint e
ConstructCall(e) ==
    /\ pc = "idle" /\ pc' = "idle" /\ calls' = calls + 1
    /\ log'[1].op = "init" /\ log'[1].ep = e

Unsupported == "TypeError: unsupported iotype"

\* C9 as claimed: open fails with the unsupported-kind error exactly when the
\* kind, lower-cased, is none of file, url, string
C9_KindsAsClaimed ==
    [][\A e \in Endpoints :
          OpenCall(e) =>
             (log'[1].err = Unsupported
                <=> Lower(ep'[e].iotype) \notin {KindFile, KindUrl, KindString})]_vars

\* C9 (amended): constructing with any kind succeeds and records the kind;
\* open fails with the unsupported-kind error exactly when the kind,
\* lower-cased, is none of file, url, str, and then opens no resource
C9_KindValidation ==
    [][\A e \in Endpoints :
          /\ ConstructCall(e) =>
                /\ log'[1].err = "ok"
                /\ log'[1].kw["iotype"] # <<>> => ep'[e].iotype = log'[1].kw["iotype"]
          /\ OpenCall(e) =>
                /\ log'[1].err = Unsupported
                      <=> Lower(ep'[e].iotype) \notin {KindFile, KindUrl, KindStr}
                /\ log'[1].err = Unsupported
                      => ep'[e].fp = ep[e].fp /\ alive' = alive]_vars

\* a reader whose kind 'xml' was given to it explicitly (its configuration
\* names none) was opened: the open raised the unsupported-kind error and
\* the reader holds no resource
C9_Witness ==
    /\ Len(log) = 1 /\ log[1].op = "open" /\ log[1].ep = "reader"
    /\ log[1].err = Unsupported
    /\ ~Has(log[1].kw, "iotype")
    /\ ep["reader"].iotype = KindXml
    /\ ~Has(ConfOf("reader"), "iotype")
    /\ ep["reader"].fp = <<>>

\* C4: at most one resource opened by an endpoint is alive at any time
C4_AtMostOneAlive == \A e \in Endpoints : alive[e] <= 1

\* this step is a top-level call of operation op on endpoint e
ApiCall(op, e) ==
    /\ pc = "idle" /\ pc' = "idle" /\ calls' = calls + 1
    /\ log'[1].op = op /\ log'[1].ep = e

\* C10: read, write and close on an endpoint that holds no handle raise, and
\* leave it holding none; a close that returns leaves the handle absent
C10_NotOpenFails ==
    [][\A e \in Endpoints :
          /\ \A op \in {"read", "write", "close"} :
                (ApiCall(op, e) /\ ep[e].fp = <<>>)
                => log'[1].err # "ok" /\ ep'[e].fp = <<>>
          /\ (ApiCall("close", e) /\ log'[1].err = "ok") => ep'[e].fp = <<>>]_vars

\* an in-memory reader was opened and closed (its configuration got the
\* default mode, nothing is alive, no handle is held), and the close that
\* followed raised
C10_Witness ==
    /\ calls = 3
    /\ Len(log) = 1 /\ log[1].op = "close" /\ log[1].ep = "reader"
    /\ log[1].err = "AttributeError"
    /\ ep["reader"].iotype = KindStr
    /\ Has(ConfOf("reader"), "mode")
    /\ alive["reader"] = 0
    /\ ep["reader"].fp = <<>>

\* process() was called and has returned or raised: the log holds its calls
\* and ends with what it raised ("ok" for nothing)
ProcessEnded ==
    /\ pc = "idle" /\ log # NoLog
    /\ log[1].op \in {"process", "run"}
    /\ \A i \in DOMAIN log : log[i].op # "init"

Outcome == log[Len(log)].err

\* C5: in a process() that has ended, every successful open (scope entered) is
\* followed by the body's call and then by close on the same endpoint, and
\* when the body raised and close completed, process() raised the body's
\* exception right after
C5_ScopedAcquisition ==
    ProcessEnded =>
       \A i \in DOMAIN log :
          (log[i].op = "open" /\ log[i].err = "ok") =>
             /\ i + 3 <= Len(log)
             /\ log[i + 1].op \in {"read", "write"}
             /\ log[i + 2].op = "close" /\ log[i + 2].ep = log[i].ep
             /\ (log[i + 1].err # "ok" /\ log[i + 2].err = "ok")
                => /\ log[i + 3].op = "process_end"
                   /\ log[i + 3].err = log[i + 1].err

\* the reader's scope was entered, the read raised a decode error, close
\* completed and process() raised the decode error
C5_Witness ==
    /\ ProcessEnded
    /\ Len(log) = 5
    /\ log[2].op = "open" /\ log[2].ep = "reader" /\ log[2].err = "ok"
    /\ log[3].op = "read" /\ log[3].err = "UnicodeDecodeError"
    /\ log[4].op = "close" /\ log[4].err = "ok"
    /\ Outcome = "UnicodeDecodeError"
    /\ ep["reader"].fp = <<>>

\* did the input side fail: the open or the read of the reader raised
InputFailed ==
    \E i \in DOMAIN log :
       log[i].ep = "reader" /\ log[i].op \in {"open", "read"} /\ log[i].err # "ok"

WriterTouched ==
    \E i \in DOMAIN log : log[i].ep = "writer" /\ log[i].op \in {"open", "write"}

\* C6 as claimed: if the open or read of the input fails, the output is not
\* opened or written; if write fails, the output is closed and process()
\* raises the write's exception
C6_AsClaimed ==
    ProcessEnded =>
       /\ InputFailed => ~WriterTouched
       /\ \A i \in DOMAIN log :
             (log[i].op = "write" /\ log[i].err # "ok") =>
                /\ i + 2 = Len(log)
                /\ log[i + 1].op = "close" /\ log[i + 1].ep = "writer"
                /\ log[i + 1].err = "ok"
                /\ Outcome = log[i].err

\* C6 (amended): if the open or read of the input fails, the output is not
\* opened or written; if write fails, close is called on the output next and
\* then process() raises: the write's exception if close completed (and the
\* output then holds no handle), the exception of close if close failed
C6_NoRecovery ==
    ProcessEnded =>
       /\ InputFailed => ~WriterTouched
       /\ \A i \in DOMAIN log :
             (log[i].op = "write" /\ log[i].err # "ok") =>
                /\ i + 2 = Len(log)
                /\ log[i + 1].op = "close" /\ log[i + 1].ep = "writer"
                /\ Outcome = (IF log[i + 1].err = "ok" THEN log[i].err
                              ELSE log[i + 1].err)
                /\ log[i + 1].err = "ok" => ep["writer"].fp = <<>>

\* the write raised (bytes written to an in-memory text buffer), close
\* completed and process() raised the write's TypeError
C6_Witness ==
    /\ ProcessEnded
    /\ Len(log) = 8
    /\ log[6].op = "write" /\ log[6].err = "TypeError"
    /\ log[7].op = "close" /\ log[7].ep = "writer" /\ log[7].err = "ok"
    /\ Outcome = "TypeError"
    /\ ep["writer"].fp = <<>>

\* C7: when process() has ended, normally or by raising, neither endpoint
\* holds a handle
C7_AllReleased ==
    ProcessEnded => \A e \in Endpoints : ep[e].fp = <<>>

\* the kind a section of the workflow's conf configures, lower-cased
SectionKind(section) ==
    IF Has(wf.conf, section)
    THEN Lower(Get(confs[wf.conf[section]], "iotype", <<>>))
    ELSE <<>>

\* run() has ended
RunEnded ==
    /\ pc = "idle" /\ log # NoLog /\ log[1].op = "run"
    /\ log[Len(log)].op = "process_end"

\* C8: after a run whose reader and writer sections are of str kind, with no
\* template set and a str source, the writer's output is the source
C8_RoundTrip ==
    (/\ RunEnded
     /\ SectionKind("reader") = KindStr /\ SectionKind("writer") = KindStr
     /\ template = ""
     /\ wf.source.t = "str")
    => ep["writer"].data = wf.source

\* endpoint e has no identifier and holds an in-memory buffer
HoldsAbsentBuffer(e) ==
    /\ ep[e].iostream = None
    /\ ep[e].fp # <<>>
    /\ ep[e].fp[1].kind = "str"

\* C11: an open, with no identifier argument, of an endpoint whose identifier
\* is absent raises TypeError and opens no resource when the kind is file;
\* when the kind is str it succeeds, the identifier stays absent and the
\* endpoint holds a buffer, and a read of that buffer then yields ''
C11_AbsentIdentifier ==
    [][/\ \A e \in Endpoints :
             (OpenCall(e) /\ ep[e].iostream = None /\ ~Has(log'[1].kw, "iostream"))
             => /\ Dispatch(ep'[e].iotype) = "file"
                   => /\ log'[1].err = "TypeError"
                      /\ ep'[e].fp = ep[e].fp
                      /\ alive' = alive
                /\ Dispatch(ep'[e].iotype) = "str"
                   => /\ log'[1].err = "ok"
                      /\ ep'[e].iostream = None
                      /\ HoldsAbsentBuffer(e)'
       /\ (ApiCall("read", "reader") /\ HoldsAbsentBuffer("reader"))
          => /\ log'[1].err = "ok"
             /\ ep'["reader"].data = Str(<<>>)]_vars

\* a reader without an identifier, given the kind str by an open call, was
\* opened and then read: the read returned ''
C11_Witness ==
    /\ Len(log) = 1 /\ log[1].op = "read" /\ log[1].err = "ok"
    /\ ep["reader"].iostream = None
    /\ ep["reader"].iotype = KindStr
    /\ ~Has(ConfOf("reader"), "iotype")
    /\ ep["reader"].data = Str(<<>>)
    /\ ep["reader"].fp # <<>>

\* the backend options the configuration of endpoint e holds
ConfFsOpts(e) == Get(ConfOf(e), "fs_opts", EmptyDict)

\* C12: an open of a url endpoint merges the backend options it is passed
\* into those the configuration holds from earlier opens (a later value
\* replacing an earlier one for the same key), and the filesystem of that
\* open is obtained with the merged options
C12_MergedOptionsUsed ==
    [][\A e \in Endpoints :
          (OpenCall(e) /\ Dispatch(ep'[e].iotype) = "url")
          => /\ ConfFsOpts(e)' = Update(ConfFsOpts(e), FsOpts(log'[1].kw))
             /\ sent'[e].backend = "url"
             /\ sent'[e].fs_opts = ConfFsOpts(e)']_vars

\* C12, the first half alone: the options passed are merged into the
\* configuration's
C12_MergedIntoConf ==
    [][\A e \in Endpoints :
          (OpenCall(e) /\ Dispatch(ep'[e].iotype) = "url")
          => ConfFsOpts(e)' = Update(ConfFsOpts(e), FsOpts(log'[1].kw))]_vars

\* C13: an open call on one endpoint leaves the configuration of the other
\* endpoint as it was; and an endpoint that was never told a mode, by its
\* configuration at construction or by an open call, resolves its own
\* default mode
C13_ConfPerEndpoint ==
    [][\A e \in Endpoints :
          OpenCall(e) =>
             /\ \A o \in Endpoints \ {e} : ConfOf(o)' = ConfOf(o)
             /\ (~Has(log'[1].kw, "mode") /\ ~Told(e, "mode"))
                => /\ Has(ConfOf(e)', "mode")
                   /\ ConfOf(e)'["mode"] = DefaultMode(ep[e].cls)]_vars

\* C13, for endpoints that were each given a dict object of their own as conf
C13_ExplicitConf ==
    [][\A e \in Endpoints :
          (OpenCall(e) /\ \A x \in Endpoints : ep[x].conf = OwnConf(x)) =>
             /\ \A o \in Endpoints \ {e} : ConfOf(o)' = ConfOf(o)
             /\ (~Has(log'[1].kw, "mode") /\ ~Told(e, "mode"))
                => /\ Has(ConfOf(e)', "mode")
                   /\ ConfOf(e)'["mode"] = DefaultMode(ep[e].cls)]_vars

\* the workflow's configuration mapping: its sections and what they hold
WorkflowConf == [section \in DOMAIN wf.conf |-> confs[wf.conf[section]]]

\* C14: no step of a run changes the workflow's configuration mapping, so
\* that it is after the run what it was before it
C14_RunKeepsConf == [][WorkflowConf' = WorkflowConf]_vars

\* C14, for the keys other than mode: a run changes no other entry
C14_RunAddsModeOnly ==
    [][\A section \in DOMAIN wf.conf :
          /\ WorkflowConf'[section] \in
                {WorkflowConf[section], Put(WorkflowConf[section], "mode", "r"),
                 Put(WorkflowConf[section], "mode", "w")}
          /\ Has(WorkflowConf[section], "mode")
                => WorkflowConf'[section] = WorkflowConf[section]]_vars

\* the open call of this step on e stored and used the arguments in kw it
\* was passed: the identifier and the kind on the endpoint (a str endpoint
\* that opened holds a buffer of the identifier's text, and the backend called
\* is the one of the kind), the mode and the encoding in the configuration
\* (and, except for a mode on a str endpoint, in the options handed to the
\* backend)
ArgumentsReplace(e, kw) ==
    /\ (Has(kw, "iostream") /\ kw["iostream"] # None)
       => /\ ep'[e].iostream = kw["iostream"]
          /\ (log'[1].err = "ok" /\ sent'[e].backend = "str")
             => ep'[e].fp[1].buf = kw["iostream"].s
    /\ Has(kw, "iotype")
       => /\ ep'[e].iotype = kw["iotype"]
          /\ sent'[e].backend = (IF Dispatch(kw["iotype"]) = "unsupported" THEN ""
                                 ELSE Dispatch(kw["iotype"]))
    /\ Has(kw, "mode")
       => /\ Has(ConfOf(e)', "mode") /\ ConfOf(e)'["mode"] = kw["mode"]
          /\ sent'[e].backend \in {"file", "url"}
             => Has(sent'[e].opts, "mode") /\ sent'[e].opts["mode"] = kw["mode"]
    /\ Has(kw, "encoding")
       => /\ Has(ConfOf(e)', "encoding") /\ ConfOf(e)'["encoding"] = kw["encoding"]
          /\ sent'[e].backend # ""
             => Has(sent'[e].opts, "encoding")
                /\ sent'[e].opts["encoding"] = kw["encoding"]

\* C15: every argument passed to open (identifier, kind, mode, encoding)
\* that is not None, the empty string included, replaces the stored value
\* and is the one used for that open
C15_ArgumentsReplace ==
    [][\A e \in Endpoints : OpenCall(e) => ArgumentsReplace(e, log'[1].kw)]_vars

\* the arguments in kw that are not empty strings
NonEmptyArgs(kw) ==
    [k \in {x \in DOMAIN kw : /\ x = "iostream" => kw[x].s # <<>>
                              /\ x = "iotype" => kw[x] # <<>>
                              /\ x \in {"mode", "encoding"} => kw[x] # ""} |-> kw[k]]

\* C15, for the arguments that are not empty strings
C15_NonEmptyArgumentsReplace ==
    [][\A e \in Endpoints :
          OpenCall(e) => ArgumentsReplace(e, NonEmptyArgs(log'[1].kw))]_vars

\* the mode and encoding arguments among kw
ModeAndEncoding(kw) == [k \in (DOMAIN kw) \cap {"mode", "encoding"} |-> kw[k]]

\* C16: after an open of a BaseContextManager that passes no backend
\* options, the configuration is the one before the call updated with the
\* mode and encoding arguments passed, and with nothing else: a kind passed
\* is stored on the endpoint and the configuration's iotype entry stays as
\* it was (absent if it was absent), and with no mode and no encoding
\* argument the configuration is unchanged
C16_BaseOpenConf ==
    [][\A e \in Endpoints :
          (OpenCall(e) /\ ep[e].cls = "BaseContextManager") =>
             /\ ~Has(log'[1].kw, "fs_opts")
                => ConfOf(e)' = Update(ConfOf(e), ModeAndEncoding(log'[1].kw))
             /\ Has(log'[1].kw, "iotype") => ep'[e].iotype = log'[1].kw["iotype"]
             /\ Has(ConfOf(e)', "iotype") <=> Has(ConfOf(e), "iotype")
             /\ Has(ConfOf(e), "iotype") => ConfOf(e)'["iotype"] = ConfOf(e)["iotype"]
             /\ DOMAIN log'[1].kw \subseteq {"iostream", "iotype"}
                => ConfOf(e)' = ConfOf(e)]_vars

\* a BaseContextManager with an empty configuration was opened with the kind
\* file passed to open: it holds a file, its kind is file and its
\* configuration is still empty
C16_Witness ==
    /\ Len(log) = 1 /\ log[1].op = "open" /\ log[1].ep = "reader" /\ log[1].err = "ok"
    /\ log[1].kw = [iotype |-> KindFile]
    /\ ep["reader"].cls = "BaseContextManager"
    /\ ep["reader"].iotype = KindFile
    /\ ep["reader"].fp # <<>>
    /\ ConfOf("reader") = EmptyDict

\* the entries of dict d under the keys in K
Restrict(d, K) == [k \in (DOMAIN d) \cap K |-> d[k]]

\* C17: the options an open call has for the backend are, when the kind
\* resolves to file or url, the mode and encoding entries the configuration
\* holds at that point, and when it resolves to str the encoding entry
\* alone, whatever mode the configuration holds
C17_ForwardedOptions ==
    [][\A e \in Endpoints :
          OpenCall(e) =>
             /\ Dispatch(ep'[e].iotype) \in {"file", "url"}
                => /\ sent'[e].backend = Dispatch(ep'[e].iotype)
                   /\ sent'[e].opts = Restrict(ConfOf(e)', {"mode", "encoding"})
             /\ Dispatch(ep'[e].iotype) = "str"
                => /\ sent'[e].backend = "str"
                   /\ sent'[e].opts = Restrict(ConfOf(e)', {"encoding"})]_vars

\* a writer of str kind whose configuration says mode 'r' was opened with
\* mode 'w': the configuration now says 'w', the buffer was opened with no
\* options, and the writer holds it
C17_Witness ==
    /\ Len(log) = 1 /\ log[1].op = "open" /\ log[1].ep = "writer" /\ log[1].err = "ok"
    /\ log[1].kw = [mode |-> "w"]
    /\ ep["writer"].iotype = KindStr
    /\ ConfOf("writer") = [iotype |-> KindStr, mode |-> "w"]
    /\ sent["writer"] = [backend |-> "str", opts |-> EmptyDict, fs_opts |-> EmptyDict]
    /\ ep["writer"].fp # <<>>

\* the exceptions by which the outside world refuses: the file or the
\* remote object does not exist or cannot be opened, read or closed
WorldErrors == {"OSError", "BackendError", "UnicodeDecodeError"}

\* the call before this step was an open of e that raised
OpenJustFailed(e) ==
    /\ log # NoLog
    /\ log[1].op = "open" /\ log[1].ep = e /\ log[1].err # "ok"

\* the call before this step was an open of e that returned
OpenJustDone(e) ==
    /\ log # NoLog
    /\ log[1].op = "open" /\ log[1].ep = e /\ log[1].err = "ok"

\* an open of e with arguments kw has a str identifier and a supported kind
\* to work with, passed in kw or else stored on e
SuppliesValid(e, kw) ==
    /\ (IF Has(kw, "iostream") THEN kw["iostream"] ELSE ep[e].iostream).t = "str"
    /\ Dispatch(IF Has(kw, "iotype") THEN kw["iotype"] ELSE ep[e].iotype) # "unsupported"

\* C18: an open that raises on an endpoint holding no handle leaves it
\* holding none and opens no resource; the next open of that endpoint, when
\* it has a valid identifier and kind to work with, raises only if the
\* outside world refuses, and otherwise leaves the endpoint holding a
\* handle; the read or close that follows an open that returned raises only
\* if the outside world refuses, and a close that returns leaves no handle
C18_FailedOpenRecoverable ==
    [][/\ \A e \in Endpoints :
             /\ (OpenCall(e) /\ log'[1].err # "ok" /\ ep[e].fp = <<>>)
                => ep'[e].fp = <<>> /\ alive' = alive
             /\ (OpenCall(e) /\ OpenJustFailed(e) /\ ep[e].fp = <<>>
                   /\ SuppliesValid(e, log'[1].kw))
                => /\ log'[1].err \in {"ok"} \cup WorldErrors
                   /\ log'[1].err = "ok" => ep'[e].fp # <<>> /\ ~ep'[e].fp[1].closed
             /\ (ApiCall("close", e) /\ OpenJustDone(e))
                => /\ log'[1].err \in {"ok"} \cup WorldErrors
                   /\ log'[1].err = "ok" => ep'[e].fp = <<>>
       /\ (ApiCall("read", "reader") /\ OpenJustDone("reader"))
          => /\ log'[1].err \in {"ok"} \cup WorldErrors
             /\ log'[1].err = "ok" => ep'["reader"].data.t = "str"]_vars

\* a reader configured with the unsupported kind xml and constructed without
\* a usable identifier was opened twice, first with the kind file and then
\* with an identifier: the first open raised and opened nothing, the second
\* returned and the reader holds the one file it opened
C18_Witness ==
    /\ calls = 2
    /\ Len(log) = 1 /\ log[1].op = "open" /\ log[1].ep = "reader" /\ log[1].err = "ok"
    /\ log[1].kw = [iostream |-> Str(<<"Y">>)]
    /\ ConfOf("reader")["iotype"] = KindXml
    /\ ep["reader"].iotype = KindFile
    /\ ep["reader"].iostream = Str(<<"Y">>)
    /\ alive["reader"] = 1
    /\ ep["reader"].fp # <<>>

\* C19: in a process() that has ended, a body call (read or write) that
\* raised is followed by close on the same endpoint, and if that close raised
\* too, process() ended there raising the exception of close, not the body's
C19_ReleaseFailureMasks ==
    ProcessEnded =>
       \A i \in DOMAIN log :
          (log[i].op \in {"read", "write"} /\ log[i].err # "ok") =>
             /\ i + 2 <= Len(log)
             /\ log[i + 1].op = "close" /\ log[i + 1].ep = log[i].ep
             /\ log[i + 1].err # "ok"
                => /\ i + 2 = Len(log)
                   /\ log[i + 2].op = "process_end"
                   /\ log[i + 2].err = log[i + 1].err

\* the read of a file reader raised a decode error, the close of its scope
\* raised OSError, and process() raised the OSError; the reader still holds
\* its stream
C19_Witness ==
    /\ ProcessEnded
    /\ Len(log) = 5
    /\ log[2].op = "open" /\ log[2].ep = "reader" /\ log[2].err = "ok"
    /\ log[3].op = "read" /\ log[3].err = "UnicodeDecodeError"
    /\ log[4].op = "close" /\ log[4].ep = "reader" /\ log[4].err = "OSError"
    /\ Outcome = "OSError"
    /\ ep["reader"].fp # <<>>

\* C20: a constructor call does not fail on a configuration that is a dict,
\* empty or not, and leaves as the endpoint's kind the kind argument if one
\* was given, else the configuration's iotype entry if it has one, else the
\* empty string; an open call that passes a kind leaves that kind on the
\* endpoint
C20_ConstructedKind ==
    [][\A e \in Endpoints :
          /\ ConstructCall(e) =>
                /\ log'[1].err = "ok"
                /\ ep'[e].iotype =
                      (IF log'[1].kw["iotype"] # <<>> THEN log'[1].kw["iotype"]
                       ELSE IF Has(ConfOf(e)', "iotype") THEN ConfOf(e)'["iotype"]
                       ELSE <<>>)
                /\ ep'[e].fp = <<>>
          /\ (OpenCall(e) /\ Has(log'[1].kw, "iotype") /\ log'[1].kw["iotype"] # <<>>)
                => ep'[e].iotype = log'[1].kw["iotype"]]_vars

\* a writer whose kind str came from its configuration was opened with the
\* kind file passed to open: its kind is now file, its configuration still
\* says str
C20_Witness ==
    /\ Len(log) = 1 /\ log[1].op = "open" /\ log[1].ep = "writer"
    /\ log[1].kw = [iotype |-> KindFile]
    /\ ConfOf("writer") = [iotype |-> KindStr, mode |-> "w"]
    /\ ep["writer"].iotype = KindFile
    /\ sent["writer"].backend = "file"

====
